---- MODULE Spec2Model ----
(***************************************************************************)
(* Model of the B-tree backfill traversal of src/src/btree/backfill.cc.    *)
(*                                                                         *)
(* One coroutine runs spawn_btree_backfill: it locks the superblock, reads *)
(* the root block id and calls subtrees_backfill, which fetches the        *)
(* recencies of the child ids, calls spawn_subtree_backfill on every child *)
(* that is recent enough, waits on the per-child conds and releases the    *)
(* parent.  spawn_subtree_backfill is an ordinary call: it acquires the    *)
(* node through acquire_node and returns, its buf_lock_t going out of      *)
(* scope.  acquire_node and get_recency_timestamps are not part of the     *)
(* file; they are modelled from the specification of the provider.         *)
(***************************************************************************)
EXTENDS Integers, Sequences, FiniteSets, TLC

\* ------------------------------------------------------------------ bounds

\* Largest logical timestamp (recencies and since_when range over 0..MaxTime).
MaxTime == 2
\* Number of children of the root block.
MaxFanout == 3
\* The admission cap K of rule 2 ("no more than K + D blocks"), scaled down
\* from the 50000 of BACKFILLING_MAX_BREADTH_FIRST_BLOCKS so that it can be
\* reached by a tree of MaxFanout children.
AdmissionCap == 1

\* ------------------------------------------------------------ block ids

SUPERBLOCK_ID == 0
NULL_BLOCK_ID == -1

\* A three-level tree: the root, MaxFanout internal blocks below it and one
\* leaf below each internal block.
RootId == 1
InternalBlocks == 2..(MaxFanout + 1)
LeafBlocks == (MaxFanout + 2)..(2 * MaxFanout + 1)
Blocks == {RootId} \cup InternalBlocks \cup LeafBlocks
AllIds == Blocks \cup {SUPERBLOCK_ID, NULL_BLOCK_ID}

Range(s) == {s[k] : k \in 1..Len(s)}

\* The ordered child list stored in an internal block.
Children(b) ==
    IF b = RootId THEN [k \in 1..MaxFanout |-> k + 1]
    ELSE IF b \in InternalBlocks THEN <<b + MaxFanout>>
    ELSE <<>>

\* The block whose child list holds b (the root has none).
ParentOf(b) ==
    IF b \in InternalBlocks THEN RootId
    ELSE IF b \in LeafBlocks THEN b - MaxFanout
    ELSE NULL_BLOCK_ID

\* Depth from the root (root = 0).
Depth(b) ==
    IF b = RootId THEN 0 ELSE IF b \in InternalBlocks THEN 1 ELSE 2

\* The blocks on the path from the root down to b, b included.
PathTo(b) ==
    IF b = RootId THEN {b}
    ELSE IF b \in InternalBlocks THEN {RootId, b}
    ELSE {RootId, ParentOf(b), b}

\* The key/value entries stored in a leaf, in stored order.
LeafEntries(b) ==
    IF b \in LeafBlocks THEN <<10 * b + 1, 10 * b + 2>> ELSE <<>>

Max(S) == CHOOSE x \in S : \A y \in S : y <= x

\* Subtree recency: the latest modification time anywhere below the block.
SubtreeRecency(lr, b) ==
    IF b \in LeafBlocks THEN lr[b]
    ELSE IF b \in InternalBlocks THEN lr[b + MaxFanout]
    ELSE Max({lr[l] : l \in LeafBlocks})

VARIABLES
    since_when,          \* backfill_state_t::since_when
    root_block,          \* btree_superblock_t::root_block
    recency,             \* subtree recency of every block, kept by the provider
    shutdown_mode,       \* backfill_state_t::shutdown_mode
    held_blocks,         \* backfill_state_t::held_blocks (per-level lists)
    num_pending_blocks,  \* backfill_state_t::num_pending_blocks
    pc,                  \* position of the coroutine
    parent,              \* block locked by subtrees_backfill's parent argument
    level,               \* subtrees_backfill's level argument
    block_ids,           \* subtrees_backfill's block_ids[0..num_block_ids)
    recencies,           \* subtrees_backfill's recencies array
    acquisition_conds,   \* subtrees_backfill's conds: TRUE once pulsed
    i,                   \* loop index of subtrees_backfill (1-based)
    child_pc,            \* position of spawn_subtree_backfill per child
    lock,                \* the session's lock on each block id
    issued,              \* block ids for which an acquisition was requested
    n_acquired,          \* acquisitions granted so far
    n_released,          \* releases so far
    emitted,             \* key/value pairs handed to the callback, in order
    provider_failed,     \* the provider failed a request of this session
    error_reported       \* an error was reported to the callback

vars == <<since_when, root_block, recency, shutdown_mode, held_blocks,
          num_pending_blocks, pc, parent, level, block_ids, recencies,
          acquisition_conds, i, child_pc, lock, issued, n_acquired,
          n_released, emitted, provider_failed, error_reported>>

inputs == <<since_when, root_block, recency>>
callback_vars == <<emitted, error_reported>>
frame_vars == <<parent, level, block_ids>>

\* ---------------------------------------------------------------- helpers

SumLens(s) ==
    LET RECURSIVE Go(_)
        Go(k) == IF k = 0 THEN 0 ELSE Len(s[k]) + Go(k - 1)
    IN Go(Len(s))

\* num_live(state)
num_live == SumLens(held_blocks) + num_pending_blocks

\* The test of the spawning loop: is a child recent enough to descend into?
MustDescendOffByOne(r) == r > since_when
MustDescendStale(r) == r + 1 >= since_when
MustDescend(r) == r >= since_when

\* The answers the provider may give for the recency of an id: the stored
\* subtree recency of a block of the tree, anything for an id that is none.
ProviderRecency(b) ==
    IF b \in Blocks THEN {recency[b]} ELSE 0..MaxTime

\* ------------------------------------------------------------------- Init

InitInputs ==
    /\ since_when \in 0..MaxTime
    /\ \E lr \in [LeafBlocks -> 0..MaxTime] :
          recency = [b \in Blocks |-> SubtreeRecency(lr, b)]
    /\ root_block \in {NULL_BLOCK_ID, RootId}

InitState ==
    /\ shutdown_mode = FALSE
    /\ held_blocks = <<>>
    /\ num_pending_blocks = 0
    /\ emitted = <<>>
    /\ provider_failed = FALSE
    /\ error_reported = FALSE
    /\ recencies = <<>>
    /\ acquisition_conds = <<>>
    /\ child_pc = <<>>
    /\ i = 0
    /\ n_released = 0

\* The state after backfill_state_t is constructed in spawn_btree_backfill.
Init ==
    /\ InitInputs
    /\ InitState
    /\ pc = "sb_acquire"
    /\ parent = SUPERBLOCK_ID
    /\ level = 0
    /\ block_ids = <<>>
    /\ lock = [b \in AllIds |-> "none"]
    /\ issued = {}
    /\ n_acquired = 0

\* The states in which subtrees_backfill is entered: from spawn_btree_backfill
\* with the superblock as parent and the root as only child, or on an internal
\* block the caller holds (and which therefore passed the recency test).
InitSubtrees ==
    /\ InitInputs
    /\ InitState
    /\ root_block = RootId
    /\ pc = "recency"
    /\ \/ /\ parent = SUPERBLOCK_ID
          /\ level = 0
          /\ block_ids = <<root_block>>
       \/ /\ parent \in {RootId} \cup InternalBlocks
          /\ \A a \in PathTo(parent) : recency[a] >= since_when
          /\ level = Depth(parent) + 1
          /\ block_ids = Children(parent)
    /\ lock = [b \in AllIds |-> IF b = parent THEN "held" ELSE "none"]
    /\ issued = {parent}
    /\ n_acquired = 1

\* ---------------------------------------------------------------- actions

\* spawn_btree_backfill: buf_lock_t buf_lock(..., SUPERBLOCK_ID, rwi_read)
\* requests the superblock ...
superblock_acquire ==
    /\ pc = "sb_acquire"
    /\ lock' = [lock EXCEPT ![SUPERBLOCK_ID] = "pending"]
    /\ issued' = issued \cup {SUPERBLOCK_ID}
    /\ pc' = "sb_wait"
    /\ UNCHANGED <<inputs, shutdown_mode, held_blocks, num_pending_blocks,
                   frame_vars, recencies, acquisition_conds, i, child_pc,
                   n_acquired, n_released, callback_vars, provider_failed>>

\* ... and the constructor returns once the lock is granted.
superblock_granted ==
    /\ pc = "sb_wait"
    /\ lock[SUPERBLOCK_ID] = "pending"
    /\ lock' = [lock EXCEPT ![SUPERBLOCK_ID] = "held"]
    /\ n_acquired' = n_acquired + 1
    /\ pc' = "sb_read"
    /\ UNCHANGED <<inputs, shutdown_mode, held_blocks, num_pending_blocks,
                   frame_vars, recencies, acquisition_conds, i, child_pc,
                   issued, n_released, callback_vars, provider_failed>>

\* spawn_btree_backfill: read root_block; return when it is NULL_BLOCK_ID,
\* else call subtrees_backfill(state, buf_lock, 0, &root_id, 1).
read_root_wrong_test ==
    /\ pc = "sb_read"
    /\ IF root_block = SUPERBLOCK_ID
       THEN /\ pc' = "sb_return"
            /\ UNCHANGED frame_vars
       ELSE /\ pc' = "recency"
            /\ parent' = SUPERBLOCK_ID
            /\ level' = 0
            /\ block_ids' = <<root_block>>
    /\ UNCHANGED <<inputs, shutdown_mode, held_blocks, num_pending_blocks,
                   recencies, acquisition_conds, i, child_pc, lock, issued,
                   n_acquired, n_released, callback_vars, provider_failed>>


\* Mutant of the bootstrap: the superblock is released as soon as the root id
\* has been read, before subtrees_backfill is called.
read_root_release_early ==
    /\ pc = "sb_read"
    /\ lock' = [lock EXCEPT ![SUPERBLOCK_ID] = "released"]
    /\ n_released' = n_released + 1
    /\ IF root_block = NULL_BLOCK_ID
       THEN /\ pc' = "sb_return"
            /\ UNCHANGED frame_vars
       ELSE /\ pc' = "recency"
            /\ parent' = SUPERBLOCK_ID
            /\ level' = 0
            /\ block_ids' = <<root_block>>
    /\ UNCHANGED <<inputs, shutdown_mode, held_blocks, num_pending_blocks,
                   recencies, acquisition_conds, i, child_pc, issued,
                   n_acquired, callback_vars, provider_failed>>

read_root ==
    /\ pc = "sb_read"
    /\ IF root_block = NULL_BLOCK_ID
       THEN /\ pc' = "sb_return"
            /\ UNCHANGED frame_vars
       ELSE /\ pc' = "recency"
            /\ parent' = SUPERBLOCK_ID
            /\ level' = 0
            /\ block_ids' = <<root_block>>
    /\ UNCHANGED <<inputs, shutdown_mode, held_blocks, num_pending_blocks,
                   recencies, acquisition_conds, i, child_pc, lock, issued,
                   n_acquired, n_released, callback_vars, provider_failed>>

\* subtrees_backfill: get_recency_timestamps fills recencies with one value
\* per block id, in order; then the conds are created, none pulsed.
get_recency_timestamps ==
    /\ pc = "recency"
    /\ \E rs \in [1..Len(block_ids) -> 0..MaxTime] :
          /\ \A k \in 1..Len(block_ids) : rs[k] \in ProviderRecency(block_ids[k])
          /\ recencies' = rs
    /\ acquisition_conds' = [k \in 1..Len(block_ids) |-> FALSE]
    /\ child_pc' = [k \in 1..Len(block_ids) |-> "none"]
    /\ i' = 1
    /\ pc' = "loop"
    /\ UNCHANGED <<inputs, shutdown_mode, held_blocks, num_pending_blocks,
                   frame_vars, lock, issued, n_acquired, n_released,
                   callback_vars, provider_failed>>

\* subtrees_backfill, one iteration of the first loop: call
\* spawn_subtree_backfill on a child that is recent enough, pulse the cond of
\* one that is not; after the last child go on to the wait loop.
SpawnLoopBody(descend) ==
    /\ pc = "loop"
    /\ IF i > Len(block_ids)
       THEN /\ pc' = "wait"
            /\ i' = 1
            /\ UNCHANGED <<child_pc, acquisition_conds>>
       ELSE IF descend
       THEN /\ child_pc' = [child_pc EXCEPT ![i] = "start"]
            /\ pc' = "call"
            /\ UNCHANGED <<i, acquisition_conds>>
       ELSE /\ acquisition_conds' = [acquisition_conds EXCEPT ![i] = TRUE]
            /\ i' = i + 1
            /\ UNCHANGED <<pc, child_pc>>
    /\ UNCHANGED <<inputs, shutdown_mode, held_blocks, num_pending_blocks,
                   frame_vars, recencies, lock, issued, n_acquired,
                   n_released, callback_vars, provider_failed>>

\* Mutants of the loop: the boundary recency is pruned; a block one tick too
\* old is descended into; a pruned child's cond is never pulsed; the call of
\* spawn_subtree_backfill does not wait for the child to return.
spawn_loop_off_by_one ==
    SpawnLoopBody(i <= Len(block_ids) /\ MustDescendOffByOne(recencies[i]))

spawn_loop_stale ==
    SpawnLoopBody(i <= Len(block_ids) /\ MustDescendStale(recencies[i]))

spawn_loop_no_pulse ==
    /\ pc = "loop"
    /\ IF i > Len(block_ids)
       THEN /\ pc' = "wait"
            /\ i' = 1
            /\ UNCHANGED <<child_pc, acquisition_conds>>
       ELSE IF MustDescend(recencies[i])
       THEN /\ child_pc' = [child_pc EXCEPT ![i] = "start"]
            /\ pc' = "call"
            /\ UNCHANGED <<i, acquisition_conds>>
       ELSE /\ i' = i + 1
            /\ UNCHANGED <<pc, child_pc, acquisition_conds>>
    /\ UNCHANGED <<inputs, shutdown_mode, held_blocks, num_pending_blocks,
                   frame_vars, recencies, lock, issued, n_acquired,
                   n_released, callback_vars, provider_failed>>

spawn_loop_detached ==
    /\ pc = "loop"
    /\ IF i > Len(block_ids)
       THEN /\ pc' = "wait"
            /\ i' = 1
            /\ UNCHANGED <<child_pc, acquisition_conds>>
       ELSE IF MustDescend(recencies[i])
       THEN /\ child_pc' = [child_pc EXCEPT ![i] = "start"]
            /\ i' = i + 1
            /\ UNCHANGED <<pc, acquisition_conds>>
       ELSE /\ acquisition_conds' = [acquisition_conds EXCEPT ![i] = TRUE]
            /\ i' = i + 1
            /\ UNCHANGED <<pc, child_pc>>
    /\ UNCHANGED <<inputs, shutdown_mode, held_blocks, num_pending_blocks,
                   frame_vars, recencies, lock, issued, n_acquired,
                   n_released, callback_vars, provider_failed>>


\* Further mutants of the loop: a pruned child is counted as a block being
\* loaded; the loop pulses the cond of a child it descends into, which
\* acquire_node pulses as well.
spawn_loop_pruned_counted ==
    /\ pc = "loop"
    /\ IF i > Len(block_ids)
       THEN /\ pc' = "wait"
            /\ i' = 1
            /\ UNCHANGED <<child_pc, acquisition_conds, num_pending_blocks>>
       ELSE IF MustDescend(recencies[i])
       THEN /\ child_pc' = [child_pc EXCEPT ![i] = "start"]
            /\ pc' = "call"
            /\ UNCHANGED <<i, acquisition_conds, num_pending_blocks>>
       ELSE /\ acquisition_conds' = [acquisition_conds EXCEPT ![i] = TRUE]
            /\ num_pending_blocks' = num_pending_blocks + 1
            /\ i' = i + 1
            /\ UNCHANGED <<pc, child_pc>>
    /\ UNCHANGED <<inputs, shutdown_mode, held_blocks, frame_vars, recencies,
                   lock, issued, n_acquired, n_released, callback_vars,
                   provider_failed>>

spawn_loop_pulse_always ==
    /\ pc = "loop"
    /\ IF i > Len(block_ids)
       THEN /\ pc' = "wait"
            /\ i' = 1
            /\ UNCHANGED <<child_pc, acquisition_conds>>
       ELSE IF MustDescend(recencies[i])
       THEN /\ child_pc' = [child_pc EXCEPT ![i] = "start"]
            /\ acquisition_conds' = [acquisition_conds EXCEPT ![i] = TRUE]
            /\ pc' = "call"
            /\ UNCHANGED i
       ELSE /\ acquisition_conds' = [acquisition_conds EXCEPT ![i] = TRUE]
            /\ i' = i + 1
            /\ UNCHANGED <<pc, child_pc>>
    /\ UNCHANGED <<inputs, shutdown_mode, held_blocks, num_pending_blocks,
                   frame_vars, recencies, lock, issued, n_acquired,
                   n_released, callback_vars, provider_failed>>

subtrees_backfill_spawn_loop ==
    SpawnLoopBody(i <= Len(block_ids) /\ MustDescend(recencies[i]))

\* acquire_node, called by spawn_subtree_backfill for child k: the acquisition
\* is requested from the provider; the block is now "acquisition pending", its
\* cond is pulsed and it counts as a block being loaded.
acquire_node_issue(k) ==
    /\ child_pc[k] = "start"
    /\ lock' = [lock EXCEPT ![block_ids[k]] = "pending"]
    /\ issued' = issued \cup {block_ids[k]}
    /\ num_pending_blocks' = num_pending_blocks + 1
    /\ acquisition_conds' = [acquisition_conds EXCEPT ![k] = TRUE]
    /\ child_pc' = [child_pc EXCEPT ![k] = "acquiring"]
    /\ UNCHANGED <<inputs, shutdown_mode, held_blocks, pc, frame_vars,
                   recencies, i, n_acquired, n_released, callback_vars,
                   provider_failed>>

\* acquire_node returns with the lock once the provider grants it.
acquire_node_granted(k) ==
    /\ child_pc[k] = "acquiring"
    /\ lock[block_ids[k]] = "pending"
    /\ lock' = [lock EXCEPT ![block_ids[k]] = "held"]
    /\ num_pending_blocks' = num_pending_blocks - 1
    /\ n_acquired' = n_acquired + 1
    /\ child_pc' = [child_pc EXCEPT ![k] = "acquired"]
    /\ UNCHANGED <<inputs, shutdown_mode, held_blocks, pc, frame_vars,
                   recencies, acquisition_conds, i, issued, n_released,
                   callback_vars, provider_failed>>

\* The provider fails the acquisition: acquire_node returns without a lock.
acquire_node_failed(k) ==
    /\ child_pc[k] = "acquiring"
    /\ lock[block_ids[k]] = "pending"
    /\ lock' = [lock EXCEPT ![block_ids[k]] = "none"]
    /\ num_pending_blocks' = num_pending_blocks - 1
    /\ provider_failed' = TRUE
    /\ child_pc' = [child_pc EXCEPT ![k] = "acquired"]
    /\ UNCHANGED <<inputs, shutdown_mode, held_blocks, pc, frame_vars,
                   recencies, acquisition_conds, i, issued, n_acquired,
                   n_released, callback_vars>>

\* spawn_subtree_backfill after acquire_node: nothing is done with the node;
\* the function returns, its buf_lock_t releasing the block if it holds it,
\* and the caller's loop moves to the next child.
spawn_subtree_return_leak(k) ==
    /\ pc = "call" /\ i = k
    /\ child_pc[k] = "acquired"
    /\ child_pc' = [child_pc EXCEPT ![k] = "returned"]
    /\ pc' = "loop"
    /\ i' = i + 1
    /\ UNCHANGED <<inputs, shutdown_mode, held_blocks, num_pending_blocks,
                   frame_vars, recencies, acquisition_conds, issued, lock,
                   n_acquired, n_released, callback_vars, provider_failed>>

spawn_subtree_backfill_return(k) ==
    /\ pc = "call" /\ i = k
    /\ child_pc[k] = "acquired"
    /\ IF lock[block_ids[k]] = "held"
       THEN /\ lock' = [lock EXCEPT ![block_ids[k]] = "released"]
            /\ n_released' = n_released + 1
       ELSE UNCHANGED <<lock, n_released>>
    /\ child_pc' = [child_pc EXCEPT ![k] = "returned"]
    /\ pc' = "loop"
    /\ i' = i + 1
    /\ UNCHANGED <<inputs, shutdown_mode, held_blocks, num_pending_blocks,
                   frame_vars, recencies, acquisition_conds, issued,
                   n_acquired, callback_vars, provider_failed>>

\* subtrees_backfill, second loop: acquisition_conds[i].wait() returns once
\* the cond is pulsed.
subtrees_backfill_wait ==
    /\ pc = "wait"
    /\ IF i > Len(block_ids)
       THEN pc' = "release" /\ UNCHANGED i
       ELSE /\ acquisition_conds[i]
            /\ i' = i + 1
            /\ UNCHANGED pc
    /\ UNCHANGED <<inputs, shutdown_mode, held_blocks, num_pending_blocks,
                   frame_vars, recencies, acquisition_conds, child_pc, lock,
                   issued, n_acquired, n_released, callback_vars,
                   provider_failed>>

\* subtrees_backfill: parent.release(), then return to the caller.
subtrees_backfill_release ==
    /\ pc = "release"
    /\ lock' = [lock EXCEPT ![parent] = "released"]
    /\ n_released' = n_released + 1
    /\ pc' = "sub_returned"
    /\ UNCHANGED <<inputs, shutdown_mode, held_blocks, num_pending_blocks,
                   frame_vars, recencies, acquisition_conds, i, child_pc,
                   issued, n_acquired, callback_vars, provider_failed>>

\* spawn_btree_backfill returns: buf_lock goes out of scope, releasing the
\* superblock if it is still held, and the session state is destroyed.

\* Mutant of the return: the scoped buf_lock releases the superblock although
\* parent.release() has already released it.
spawn_btree_backfill_return_twice ==
    /\ \/ pc = "sb_return"
       \/ pc = "sub_returned" /\ parent = SUPERBLOCK_ID
    /\ lock' = [lock EXCEPT ![SUPERBLOCK_ID] = "released"]
    /\ n_released' = n_released + 1
    /\ pc' = "done"
    /\ UNCHANGED <<inputs, shutdown_mode, held_blocks, num_pending_blocks,
                   frame_vars, recencies, acquisition_conds, i, child_pc,
                   issued, n_acquired, callback_vars, provider_failed>>

spawn_btree_backfill_return ==
    /\ \/ pc = "sb_return"
       \/ pc = "sub_returned" /\ parent = SUPERBLOCK_ID
    /\ IF lock[SUPERBLOCK_ID] = "held"
       THEN /\ lock' = [lock EXCEPT ![SUPERBLOCK_ID] = "released"]
            /\ n_released' = n_released + 1
       ELSE UNCHANGED <<lock, n_released>>
    /\ pc' = "done"
    /\ UNCHANGED <<inputs, shutdown_mode, held_blocks, num_pending_blocks,
                   frame_vars, recencies, acquisition_conds, i, child_pc,
                   issued, n_acquired, callback_vars, provider_failed>>

\* An external request sets shutdown_mode while the session runs.
request_shutdown ==
    /\ pc \notin {"done", "sub_returned"}
    /\ shutdown_mode = FALSE
    /\ shutdown_mode' = TRUE
    /\ UNCHANGED <<inputs, held_blocks, num_pending_blocks, pc, frame_vars,
                   recencies, acquisition_conds, i, child_pc, lock, issued,
                   n_acquired, n_released, callback_vars, provider_failed>>

\* ---------------------------------------------------------- specifications

ChildSteps ==
    \E k \in 1..MaxFanout :
        /\ k <= Len(child_pc)
        /\ \/ acquire_node_issue(k)
           \/ acquire_node_granted(k)
           \/ acquire_node_failed(k)
           \/ spawn_subtree_backfill_return(k)

SubtreesSteps ==
    \/ get_recency_timestamps
    \/ subtrees_backfill_spawn_loop
    \/ ChildSteps
    \/ subtrees_backfill_wait
    \/ subtrees_backfill_release

Progress ==
    \/ superblock_acquire
    \/ superblock_granted
    \/ read_root
    \/ SubtreesSteps
    \/ spawn_btree_backfill_return

Next == Progress \/ request_shutdown

\* A session started by spawn_btree_backfill.
Spec == Init /\ [][Next]_vars

\* The same, with the coroutine scheduled and the provider answering.
FairSpec == Spec /\ WF_vars(Progress)

NextSubtrees == SubtreesSteps \/ request_shutdown

\* One call of subtrees_backfill.
SpecSubtrees == InitSubtrees /\ [][NextSubtrees]_vars


\* One call of subtrees_backfill, with the coroutine scheduled and the
\* provider answering every request.
FairSpecSubtrees == SpecSubtrees /\ WF_vars(SubtreesSteps)

TypeOK ==
    /\ since_when \in 0..MaxTime
    /\ root_block \in {NULL_BLOCK_ID, RootId}
    /\ recency \in [Blocks -> 0..MaxTime]
    /\ shutdown_mode \in BOOLEAN
    /\ num_pending_blocks \in 0..MaxFanout
    /\ pc \in {"sb_acquire", "sb_wait", "sb_read", "sb_return", "recency",
               "loop", "call", "wait", "release", "sub_returned", "done"}
    /\ lock \in [AllIds -> {"none", "pending", "held", "released"}]
    /\ issued \subseteq AllIds
    /\ Len(recencies) = Len(acquisition_conds)

\* ------------------------------------------------------------------ claims

\* The entries of the leaves that a traversal from the root reaches through
\* blocks that are all recent enough.
ExpectedEntries ==
    IF root_block = NULL_BLOCK_ID THEN {}
    ELSE UNION {Range(LeafEntries(l)) :
                  l \in {x \in LeafBlocks :
                           \A a \in PathTo(x) : recency[a] >= since_when}}

NoBlockLive == \A b \in AllIds : lock[b] \notin {"pending", "held"}

Stale(b) == \E a \in PathTo(b) : recency[a] < since_when

\* C1: when a session run by spawn_btree_backfill ends without provider
\* failure or cancellation, the pairs delivered to the callback are exactly
\* the entries of the leaves whose whole path from the root has
\* recency >= since_when.
C1_EmitsExactlyAdequateEntries ==
    (pc = "done" /\ ~provider_failed /\ ~shutdown_mode)
        => Range(emitted) = ExpectedEntries

C3_ParentHeldUntilChildrenPending ==
    [][(lock[parent] = "held" /\ lock'[parent] = "released")
         => \A k \in 1..Len(block_ids) :
               recency[block_ids[k]] >= since_when => block_ids[k] \in issued]_vars

\* C3 witness: the parent of several children is released and a child that
\* was recent enough has had its acquisition issued.
C3_Witness ==
    /\ lock[parent] = "released"
    /\ Len(block_ids) > 1
    /\ \E k \in 1..Len(block_ids) :
          recency[block_ids[k]] >= since_when /\ block_ids[k] \in issued

\* C4: when the session ends (spawn_btree_backfill has returned, whether
\* after normal completion, a provider failure or a shutdown request) no
\* block is held or pending and as many blocks were released as acquired.
C4_NothingHeldAtSessionEnd ==
    pc = "done" => (NoBlockLive /\ n_acquired = n_released)

\* C4 witness: a session that acquired the superblock and the root has ended.
C4_Witness == pc = "done" /\ n_acquired = 2 /\ lock[RootId] = "released"

\* C5: once shutdown_mode is true, no step of the traversal issues the
\* acquisition of a further block of the tree.
C5_NoAcquisitionAfterShutdown ==
    [][shutdown_mode => (issued' \ {SUPERBLOCK_ID}) = (issued \ {SUPERBLOCK_ID})]_vars

Drained == pc = "done" /\ NoBlockLive /\ num_pending_blocks = 0

C7_EmptyTree ==
    /\ [](root_block = NULL_BLOCK_ID
            => /\ issued \subseteq {SUPERBLOCK_ID}
               /\ emitted = <<>>
               /\ ~error_reported
               /\ ~provider_failed)
    /\ (root_block = NULL_BLOCK_ID) ~> (pc = "done")

\* C7 witness: the session on an empty tree has ended, the superblock having
\* been locked and released.
C7_Witness ==
    /\ root_block = NULL_BLOCK_ID
    /\ pc = "done"
    /\ lock[SUPERBLOCK_ID] = "released"

\* C8: a block with a block of recency < since_when on its path from the
\* root (itself included) is never requested from the provider.
C8_StaleNeverAcquired ==
    \A b \in Blocks : Stale(b) => (b \notin issued /\ lock[b] = "none")

\* C8 witness: a call has returned having skipped a stale child and acquired
\* a sibling that was recent enough.
C8_Witness ==
    /\ pc = "sub_returned"
    /\ \E k \in 1..Len(block_ids) : recency[block_ids[k]] < since_when
    /\ \E k \in 1..Len(block_ids) : lock[block_ids[k]] = "released"

\* C9: a session in which the provider failed ends with the failure reported
\* to the callback.
C9_FailureReported ==
    (pc = "done" /\ provider_failed) => error_reported

\* The pairs of one leaf among those handed to the callback, in the order in
\* which they were handed over.
EmittedOf(l) ==
    SelectSeq(emitted, LAMBDA e : e \in Range(LeafEntries(l)))

C12_ReleasedExactlyOnce ==
    /\ [][n_released' # n_released
            => /\ n_released' = n_released + 1
               /\ \E b \in AllIds : lock[b] = "held" /\ lock'[b] = "released"]_vars
    /\ [][\A b \in AllIds :
            /\ (lock[b] = "released" => lock'[b] = "released")
            /\ (lock'[b] = "released" /\ lock[b] # "released"
                  => lock[b] = "held" /\ n_released' = n_released + 1)]_vars
    /\ [](pc = "done"
            => /\ NoBlockLive
               /\ n_released = Cardinality({b \in AllIds : lock[b] = "released"})
               /\ n_released = n_acquired)

\* C12 witness: the session has ended with the superblock (the root's parent)
\* and the root each released.
C12_Witness ==
    /\ pc = "done"
    /\ lock[SUPERBLOCK_ID] = "released"
    /\ lock[RootId] = "released"
    /\ n_released = 2

\* C13: once the spawning loop of subtrees_backfill is over, an acquisition
\* has been issued for every child whose recency is >= since_when, the
\* boundary recency = since_when included.
C13_AdequateChildrenIssued ==
    pc \in {"wait", "release", "sub_returned"}
        => \A k \in 1..Len(block_ids) :
              recency[block_ids[k]] >= since_when => block_ids[k] \in issued

\* C13 witness: the loop is over and a child whose recency equals since_when
\* was acquired.
C13_Witness ==
    /\ pc = "wait"
    /\ \E k \in 1..Len(block_ids) :
          /\ recency[block_ids[k]] = since_when
          /\ lock[block_ids[k]] = "released"

\* The step of the spawning loop that handles a pruned child.
PruneStep ==
    /\ pc = "loop"
    /\ i <= Len(block_ids)
    /\ pc' = "loop"
    /\ i' = i + 1

\* The step in which the acquisition of child k is requested.
IssueStep(k) == child_pc[k] = "start" /\ child_pc'[k] = "acquiring"

\* C14: the step that handles a pruned child (recency < since_when) pulses
\* that child's cond and leaves held_blocks, num_pending_blocks and the locks
\* as they were.
C14_PrunedChildFrame ==
    [][(PruneStep /\ recencies[i] < since_when)
         => /\ acquisition_conds'[i]
            /\ held_blocks' = held_blocks
            /\ num_pending_blocks' = num_pending_blocks
            /\ lock' = lock
            /\ issued' = issued]_vars

\* C14 witness: the loop has just passed a pruned child: its cond is pulsed,
\* no acquisition was requested for it and nothing is being loaded.
C14_Witness ==
    /\ pc = "loop"
    /\ i > 1
    /\ recencies[i - 1] < since_when
    /\ acquisition_conds[i - 1]
    /\ block_ids[i - 1] \notin issued
    /\ num_live = 0

\* C15: requesting a child's acquisition does not suspend the spawning
\* parent: the parent is never waiting inside the call for a child whose
\* acquisition is pending while a later sibling that is recent enough has
\* not been requested yet.
C15_SpawnDoesNotBlockParent ==
    ~(/\ pc = "call"
      /\ child_pc[i] = "acquiring"
      /\ \E j \in (i + 1)..Len(block_ids) :
            recencies[j] >= since_when /\ block_ids[j] \notin issued)

\* C16: the release of the parent does not wait for a child's acquisition to
\* be granted: once every child that is recent enough has been requested,
\* the parent is not still held by a coroutine suspended in a child's call
\* until the provider grants that child.
C16_ReleaseDoesNotWaitForGrant ==
    ~(/\ lock[parent] = "held"
      /\ pc = "call"
      /\ child_pc[i] = "acquiring"
      /\ \A k \in 1..Len(block_ids) :
            recencies[k] >= since_when => block_ids[k] \in issued)

\* C17: a cond is pulsed only by the pruning branch of the loop or by the
\* request of its child's acquisition, each time from unpulsed to pulsed; a
\* child takes only one of the two ways; and when the wait loop is over
\* every cond has been pulsed.
C17_CondPulsedExactlyOnce ==
    /\ [][\A k \in 1..Len(child_pc) :
            IssueStep(k) => (~acquisition_conds[k] /\ acquisition_conds'[k])]_vars
    /\ [][PruneStep
            => /\ ~acquisition_conds[i]
               /\ acquisition_conds'[i]
               /\ child_pc'[i] = "none"]_vars
    /\ [][\A k \in 1..Len(acquisition_conds) :
            acquisition_conds'[k] # acquisition_conds[k]
               => (IssueStep(k) \/ (PruneStep /\ k = i))]_vars
    /\ [](pc \in {"release", "sub_returned"}
            => \A k \in 1..Len(block_ids) : acquisition_conds[k])

\* C17 witness: the wait loop is over for a call that pruned one child and
\* descended into another.
C17_Witness ==
    /\ pc = "release"
    /\ \E k \in 1..Len(block_ids) : child_pc[k] = "none"
    /\ \E k \in 1..Len(block_ids) : child_pc[k] = "returned"

InHeldBlocks(b) ==
    \E l \in 1..Len(held_blocks) : b \in Range(held_blocks[l])

\* C19: held_blocks holds a block of the tree exactly while the session
\* holds its lock, and num_pending_blocks is the number of acquisitions
\* requested and not yet completed, never negative.
C19_BookkeepingMatchesLocks ==
    /\ \A b \in Blocks : InHeldBlocks(b) <=> lock[b] = "held"
    /\ num_pending_blocks = Cardinality({b \in Blocks : lock[b] = "pending"})
    /\ num_pending_blocks >= 0

\* C20: a call of subtrees_backfill terminates when the coroutine is
\* scheduled and the provider answers: the wait loop is left once entered,
\* and the call returns with the parent released and no child lock left
\* pending or held.
C20_CallTerminates ==
    /\ (pc = "wait") ~> (pc = "release")
    /\ <>(pc = "sub_returned" /\ lock[parent] = "released" /\ NoBlockLive)

\* C20 witness: the call on a parent with a full list of children, all of
\* them acquired and released again, has returned and released the parent.
C20_Witness ==
    /\ pc = "sub_returned"
    /\ lock[parent] = "released"
    /\ Len(block_ids) = MaxFanout
    /\ \A k \in 1..Len(block_ids) : lock[block_ids[k]] = "released"

====
